---- MODULE Spec2Model ----
(***************************************************************************)
(* Model of scripts/evaluate_navier_stokes.py: the main() function as a    *)
(* state machine whose program counter walks the statements of the script. *)
(* The pure helper flatten_to_args and the argument scan of                *)
(* parser.parse_known_args are operators.                                  *)
(***************************************************************************)
EXTENDS Integers, Sequences, FiniteSets, TLC

VARIABLES
    pc,             \* the statement main() is about to run
    exit_kind,      \* "running", "returned", "sys_exit" or "unhandled"
    exit_status,    \* process exit status once the run has ended, -1 before
    raised_at,      \* the step whose exception left main(), "" if none
    argv,           \* sys.argv
    args,           \* the Namespace returned by parse_known_args
    unknown,        \* the arguments parse_known_args did not recognise
    config_file,    \* the TOML document stored at the --config path
    config_dict,    \* tomllib.load(f), <<>> until loaded
    stdout,         \* the lines printed so far
    config,         \* the configuration object
    ctx,            \* device, is_logger, local rank and process group
    loaded,         \* what load_navier_stokes_pt returned
    train_loader,
    test_loaders,
    data_processor,
    model,
    optimizer,
    trainer,
    calls,          \* the steps of main() run so far, in order
    trainer_calls,  \* the methods invoked on the trainer, in order
    resume_result,  \* outcome of trainer.resume_state_from_dir
    metrics

vars == <<pc, exit_kind, exit_status, raised_at, argv, args, unknown,
          config_file, config_dict, stdout, config, ctx, loaded, train_loader,
          test_loaders, data_processor, model, optimizer, trainer, calls,
          trainer_calls, resume_result, metrics>>

(***************************************************************************)
(* Bounds of the model.                                                    *)
(***************************************************************************)
MaxArgs == 3        \* command-line arguments after argv[0] (argument phase)
MaxNodes == 3       \* keys, nested ones included, of a TOML document
MaxRunArgs == 2     \* command-line arguments of a full run
MaxRunNodes == 0    \* keys of the TOML document of a full run
MaxRes == 2         \* test resolutions / test batch sizes
MaxLevels == 1      \* largest config.patching.levels

None == <<>>
Some(x) == <<x>>

(***************************************************************************)
(* Strings.  str(v) of a TOML leaf, as Python computes it.                 *)
(***************************************************************************)
Digit(n) == CASE n = 0 -> "0" [] n = 1 -> "1" [] n = 2 -> "2" [] n = 3 -> "3"
              [] n = 4 -> "4" [] n = 5 -> "5" [] n = 6 -> "6" [] n = 7 -> "7"
              [] n = 8 -> "8" [] n = 9 -> "9"

RECURSIVE NatStr(_)
NatStr(n) == IF n < 10 THEN Digit(n) ELSE NatStr(n \div 10) \o Digit(n % 10)

IntStr(n) == IF n < 0 THEN "-" \o NatStr(-n) ELSE NatStr(n)

\* str(v) for a TOML leaf value
Str(v) == CASE v.tag = "int" -> IntStr(v.n)
            [] v.tag = "bool" -> (IF v.b THEN "True" ELSE "False")
            [] v.tag = "str" -> v.s

(***************************************************************************)
(* TOML documents: a table is the sequence of its entries in insertion     *)
(* order (a Python dict), keys distinct; a value is a leaf or a table.     *)
(***************************************************************************)
Keys == {"", "a", "config"}

Leaves == {[tag |-> "int", n |-> 10], [tag |-> "bool", b |-> TRUE],
           [tag |-> "str", s |-> "x"]}

TableOf(items) == [tag |-> "table", items |-> items]

KeysOf(t) == {t[i].k : i \in 1..Len(t)}

RECURSIVE Tables(_)
\* the tables with exactly n keys, nested ones included
Tables(n) ==
    IF n = 0 THEN {<<>>}
    ELSE UNION {
        LET vals == IF m = 0 THEN Leaves \cup {TableOf(<<>>)}
                    ELSE {TableOf(t) : t \in Tables(m)}
        IN UNION {{<<[k |-> k, v |-> val]>> \o rest :
                       k \in Keys \ KeysOf(rest), val \in vals} :
                  rest \in Tables(n - 1 - m)}
        : m \in 0..(n - 1)}

TomlFiles == UNION {Tables(n) : n \in 0..MaxNodes}

RunTomlFiles == UNION {Tables(n) : n \in 0..MaxRunNodes}

RECURSIVE flatten_to_args(_, _)
flatten_to_args(d, prefix) ==
    IF d = <<>> THEN <<>>
    ELSE LET k == Head(d).k
             v == Head(d).v
             key == IF prefix /= "" THEN prefix \o "." \o k ELSE k
         IN (IF v.tag = "table"
             THEN flatten_to_args(v.items, key)
             ELSE <<"--" \o key, Str(v)>>)
            \o flatten_to_args(Tail(d), prefix)

(***************************************************************************)
(* argparse: the parser of main() knows --config and --checkpoint, each    *)
(* taking one argument; everything else is left in the unknown list.       *)
(***************************************************************************)
ScriptFlags == {"--config", "--checkpoint"}

Tokens == {"--config", "--checkpoint", "--opt.lr", "cfg.toml", ""}

\* the tokens argparse reads as option strings (they start with '-')
OptionLike == {"--config", "--checkpoint", "--opt.lr"}

RECURSIVE BoundedSeqs(_, _)
BoundedSeqs(S, n) ==
    IF n = 0 THEN {<<>>}
    ELSE LET shorter == BoundedSeqs(S, n - 1)
         IN shorter \cup {Append(s, x) : s \in {t \in shorter : Len(t) = n - 1}, x \in S}

CommandLines == BoundedSeqs(Tokens, MaxArgs)

RunCommandLines == BoundedSeqs(Tokens, MaxRunArgs)

DefaultArgs == [config |-> None, checkpoint |-> Some("./ckpt")]

Dest(flag) == IF flag = "--config" THEN "config" ELSE "checkpoint"

RECURSIVE ScanArgs(_, _, _)
ScanArgs(s, ns, extras) ==
    IF s = <<>> THEN [ok |-> TRUE, args |-> ns, unknown |-> extras]
    ELSE IF Head(s) \in ScriptFlags
         THEN IF Len(s) >= 2 /\ s[2] \notin OptionLike
              THEN ScanArgs(SubSeq(s, 3, Len(s)),
                            [ns EXCEPT ![Dest(Head(s))] = Some(s[2])], extras)
              ELSE [ok |-> FALSE, args |-> ns, unknown |-> extras]
         ELSE ScanArgs(Tail(s), ns, Append(extras, Head(s)))

\* parser.parse_known_args() on sys.argv[1:]
parse_known_args(arg_strings) == ScanArgs(arg_strings, DefaultArgs, <<>>)

\* Python truthiness of args.config (None and "" are falsy)
Truthy(opt) == opt /= None /\ opt[1] /= ""

Argv0 == "evaluate_navier_stokes.py"

\* the command lines on which main() opens the --config file; on the others
\* the file is never read and its content is immaterial
ReadsConfig(arg_strings) ==
    LET r == parse_known_args(arg_strings) IN r.ok /\ Truthy(r.args.config)

(***************************************************************************)
(* Library calls whose code is not part of the script.  Each operator is   *)
(* the set of results the call can return.                                 *)
(***************************************************************************)
Resolution(i) == 128 * i

BatchSize(i) == 8 * i

Prefixes(f(_)) == {[i \in 1..n |-> f(i)] : n \in 0..MaxRes}

\* make_config_from_cli(Default).to_dict(): the fields main() reads
Configs ==
    [verbose : BOOLEAN,
     distributed : [use_distributed : BOOLEAN],
     patching : [levels : (-1)..MaxLevels],
     data : [batch_size : {16},
             test_resolutions : Prefixes(Resolution),
             test_batch_sizes : Prefixes(BatchSize)]]

Ranks == 0..1

\* setup(config): the device, the logger flag, the local rank and the
\* process group, which setup initialises in distributed mode
setup(cfg) ==
    IF cfg.distributed.use_distributed
    THEN {[device |-> "cuda:" \o Digit(r), is_logger |-> l, local_rank |-> r,
           pg_initialized |-> TRUE, pg_destroyed |-> FALSE] :
          r \in Ranks, l \in BOOLEAN}
    ELSE {[device |-> "cpu", is_logger |-> l, local_rank |-> 0,
           pg_initialized |-> FALSE, pg_destroyed |-> FALSE] : l \in BOOLEAN}

NoContext == [device |-> "", is_logger |-> FALSE, local_rank |-> 0,
              pg_initialized |-> FALSE, pg_destroyed |-> FALSE]

LibraryLoader(db) == [dataset |-> db, built_by |-> "load_navier_stokes_pt"]

\* load_navier_stokes_pt(...): a train loader, one test loader per test
\* resolution (a dict keyed by resolution, in insertion order) and the
\* default data processor with its two normalizers
load_navier_stokes_pt(cfg) ==
    {[train_loader |-> LibraryLoader(<<"train_db">>),
      test_loaders |->
          [i \in 1..Len(cfg.data.test_resolutions) |->
              [res |-> cfg.data.test_resolutions[i],
               loader |-> LibraryLoader(<<"test_db", cfg.data.test_resolutions[i]>>)]],
      data_processor |->
          [kind |-> "DefaultDataProcessor", in_normalizer |-> "in_normalizer",
           out_normalizer |-> "out_normalizer", device |-> "cpu"]]}

ExcMessages == {"no state dict found"}

\* trainer.resume_state_from_dir(dir): returns, raises an Exception with a
\* message, or raises a BaseException that is no Exception
ResumeOutcomes ==
    {[kind |-> "ok", msg |-> ""], [kind |-> "BaseException", msg |-> ""]}
    \cup {[kind |-> "Exception", msg |-> m] : m \in ExcMessages}

\* trainer.evaluate_all(...): one loss value per resolution and eval loss
evaluate_all(loaders) ==
    [i \in 1..Len(loaders) |->
        [k |-> IntStr(loaders[i].res) \o "_h1", v |-> "loss"]]

(***************************************************************************)
(* main()                                                                  *)
(***************************************************************************)
argsVars == <<argv, args, unknown, config_dict>>

dataVars == <<loaded, train_loader, test_loaders, data_processor, model>>

trainVars == <<optimizer, trainer, trainer_calls, resume_result, metrics>>

Lines(out) == stdout \o out

\* an exception that nothing catches leaves main(): traceback, status 1
Propagate(step) ==
    /\ pc' = "done"
    /\ exit_kind' = "unhandled"
    /\ exit_status' = 1
    /\ raised_at' = step

Continue(next) ==
    /\ pc' = next
    /\ UNCHANGED <<exit_kind, exit_status, raised_at>>

InitWith(commandLines, files) ==
    /\ pc = "parse_args"
    /\ exit_kind = "running"
    /\ exit_status = -1
    /\ raised_at = ""
    /\ argv \in {<<Argv0>> \o cl : cl \in commandLines}
    /\ args = DefaultArgs
    /\ unknown = <<>>
    /\ config_file \in (IF ReadsConfig(Tail(argv)) THEN files ELSE {<<>>})
    /\ config_dict = <<>>
    /\ stdout = <<>>
    /\ config = None
    /\ ctx = NoContext
    /\ loaded = None
    /\ train_loader = None
    /\ test_loaders = <<>>
    /\ data_processor = None
    /\ model = None
    /\ optimizer = None
    /\ trainer = None
    /\ calls = <<>>
    /\ trainer_calls = <<>>
    /\ resume_result = None
    /\ metrics = <<>>

Init == InitWith(RunCommandLines, RunTomlFiles)

InitArgs == InitWith(CommandLines, TomlFiles)

\* lines 32-35 and the test of line 38
ParseArgs ==
    /\ pc = "parse_args"
    /\ calls' = Append(calls, "parse_config")
    /\ LET r == parse_known_args(Tail(argv))
       IN IF r.ok
          THEN /\ args' = r.args
               /\ unknown' = r.unknown
               /\ Continue(IF Truthy(r.args.config) THEN "read_config" ELSE "make_config")
          ELSE \* parser.error(): usage message and SystemExit(2)
               /\ pc' = "done"
               /\ exit_kind' = "sys_exit"
               /\ exit_status' = 2
               /\ UNCHANGED <<args, unknown, raised_at>>
    /\ UNCHANGED <<argv, config_dict, config_file, stdout, config, ctx>>
    /\ UNCHANGED <<dataVars, trainVars>>

\* mutant: the whole command line is appended instead of the unknown arguments
RewrittenArgv_KeepsCommandLine(old_argv, d, unk) ==
    <<old_argv[1]>> \o flatten_to_args(d, "") \o Tail(old_argv)

\* lines 54-56: sys.argv = [sys.argv[0]] + file_args + unknown
RewrittenArgv(old_argv, d, unk) == <<old_argv[1]>> \o flatten_to_args(d, "") \o unk

\* lines 39-56: load the TOML file and rewrite sys.argv
ReadConfig ==
    /\ pc = "read_config"
    /\ \/ /\ config_dict' = config_file
          /\ argv' = RewrittenArgv(argv, config_file, unknown)
          /\ Continue("make_config")
       \/ \* open() or tomllib.load() raises
          /\ Propagate("read_config")
          /\ UNCHANGED <<config_dict, argv>>
    /\ UNCHANGED <<args, unknown, config_file, stdout, config, ctx, calls>>
    /\ UNCHANGED <<dataVars, trainVars>>

\* lines 58-63
MakeConfig ==
    /\ pc = "make_config"
    /\ \/ /\ config' \in Configs
          /\ Continue("setup")
       \/ /\ Propagate("make_config")
          /\ UNCHANGED config
    /\ UNCHANGED <<argsVars, config_file, stdout, ctx, calls>>
    /\ UNCHANGED <<dataVars, trainVars>>

NextArgs == ParseArgs \/ ReadConfig

SpecArgs == InitArgs /\ [][NextArgs]_vars

\* mutant: the logger flag is not taken into account
ReducedVerbose_IgnoresLogger(verbose, is_logger) == verbose

\* line 69: config.verbose = config.verbose and is_logger
ReducedVerbose(verbose, is_logger) == verbose /\ is_logger

\* lines 65-73
Setup ==
    /\ pc = "setup"
    /\ calls' = Append(calls, "setup")
    /\ \/ \E c \in setup(config) :
            LET verbose == ReducedVerbose(config.verbose, c.is_logger)
            IN /\ ctx' = c
               /\ config' = [config EXCEPT !.verbose = verbose]
               /\ stdout' = IF verbose
                            THEN Lines(<<"##### CONFIG #####\n", "<config>">>)
                            ELSE stdout
               /\ Continue("load_data")
       \/ /\ Propagate("setup")
          /\ UNCHANGED <<ctx, config, stdout>>
    /\ UNCHANGED <<argsVars, config_file, dataVars, trainVars>>

\* lines 75-90
LoadData ==
    /\ pc = "load_data"
    /\ calls' = Append(calls, "load_data")
    /\ stdout' = Lines(<<"Loading data...">>)
    /\ \/ \E r \in load_navier_stokes_pt(config) :
            /\ loaded' = r
            /\ train_loader' = r.train_loader
            /\ test_loaders' = r.test_loaders
            /\ data_processor' = r.data_processor
            /\ Continue("get_model")
       \/ /\ Propagate("load_data")
          /\ UNCHANGED <<loaded, train_loader, test_loaders, data_processor>>
    /\ UNCHANGED <<argsVars, config_file, config, ctx, model, trainVars>>

\* lines 92-94: model = get_model(config).to(device)
GetModel ==
    /\ pc = "get_model"
    /\ calls' = Append(calls, "get_model")
    /\ \/ /\ model' = [id |-> "get_model(config)", device |-> ctx.device]
          /\ Continue("data_processor")
       \/ /\ Propagate("get_model")
          /\ UNCHANGED model
    /\ UNCHANGED <<argsVars, config_file, stdout, config, ctx, trainVars>>
    /\ UNCHANGED <<loaded, train_loader, test_loaders, data_processor>>

\* lines 98-106
MGPatchingDataProcessor(m, dp, cfg) ==
    [kind |-> "MGPatchingDataProcessor", model |-> m,
     in_normalizer |-> dp.in_normalizer, out_normalizer |-> dp.out_normalizer,
     levels |-> cfg.patching.levels,
     use_distributed |-> cfg.distributed.use_distributed, device |-> "cpu"]

\* mutant: the patching test is levels >= 0
ProcessorFor_LevelsGeqZero(m, dp, cfg, device) ==
    LET chosen == IF cfg.patching.levels >= 0
                  THEN MGPatchingDataProcessor(m, dp, cfg)
                  ELSE dp
    IN [chosen EXCEPT !.device = device]

\* lines 97-107: the data processor after the patching test and .to(device)
ProcessorFor(m, dp, cfg, device) ==
    LET chosen == IF cfg.patching.levels > 0
                  THEN MGPatchingDataProcessor(m, dp, cfg)
                  ELSE dp
    IN [chosen EXCEPT !.device = device]

\* lines 96-107
DataProcessorSetup ==
    /\ pc = "data_processor"
    /\ calls' = Append(calls, "data_processor")
    /\ \/ /\ data_processor' = ProcessorFor(model, data_processor, config, ctx.device)
          /\ Continue("wrap_loaders")
       \/ /\ Propagate("data_processor")
          /\ UNCHANGED data_processor
    /\ UNCHANGED <<argsVars, config_file, stdout, config, ctx, trainVars>>
    /\ UNCHANGED <<loaded, train_loader, test_loaders, model>>

\* DataLoader(dataset=db, batch_size=..., sampler=DistributedSampler(db, rank=...))
DistributedLoader(db, batch_size, rank) ==
    [dataset |-> db, built_by |-> "DataLoader", batch_size |-> batch_size,
     sampler |-> [kind |-> "DistributedSampler", rank |-> rank]]

\* lines 116-123: zip() stops at the shorter of test_loaders.items() and
\* config.data.test_batch_sizes
WrapTestLoaders(loaders, batch_sizes, rank) ==
    [i \in 1..Len(loaders) |->
        IF i <= Len(batch_sizes)
        THEN [res |-> loaders[i].res,
              loader |-> DistributedLoader(loaders[i].loader.dataset, batch_sizes[i], rank)]
        ELSE loaders[i]]

\* lines 109-123
WrapLoaders ==
    /\ pc = "wrap_loaders"
    /\ calls' = Append(calls, "wrap_loaders")
    /\ \/ /\ IF config.distributed.use_distributed
             THEN /\ train_loader' = DistributedLoader(train_loader.dataset,
                                         config.data.batch_size, ctx.local_rank)
                  /\ test_loaders' = WrapTestLoaders(test_loaders,
                                         config.data.test_batch_sizes, ctx.local_rank)
             ELSE UNCHANGED <<train_loader, test_loaders>>
          /\ Continue("make_trainer")
       \/ /\ config.distributed.use_distributed
          /\ Propagate("wrap_loaders")
          /\ UNCHANGED <<train_loader, test_loaders>>
    /\ UNCHANGED <<argsVars, config_file, stdout, config, ctx, trainVars>>
    /\ UNCHANGED <<loaded, data_processor, model>>

\* mutant: wandb logging left on, as in the training script
Trainer_WandbOn(m, dp, cfg, device) ==
    [model |-> m, data_processor |-> dp, device |-> device,
     use_distributed |-> cfg.distributed.use_distributed,
     verbose |-> cfg.verbose, wandb_log |-> TRUE]

\* lines 134-145
Trainer(m, dp, cfg, device) ==
    [model |-> m, data_processor |-> dp, device |-> device,
     use_distributed |-> cfg.distributed.use_distributed,
     verbose |-> cfg.verbose, wandb_log |-> FALSE]

\* lines 125-145
MakeTrainer ==
    /\ pc = "make_trainer"
    /\ calls' = Append(calls, "make_trainer")
    /\ \/ /\ optimizer' = [optimizer_steps |-> 0, scheduler_steps |-> 0]
          /\ trainer' = Trainer(model, data_processor, config, ctx.device)
          /\ Continue("load_checkpoint")
       \/ /\ Propagate("make_trainer")
          /\ UNCHANGED <<optimizer, trainer>>
    /\ UNCHANGED <<argsVars, config_file, stdout, config, ctx, dataVars>>
    /\ UNCHANGED <<trainer_calls, resume_result, metrics>>

\* str(Path(p)) for the paths of the model
PathStr(p) == CASE p = "./ckpt" -> "ckpt" [] p = "" -> "." [] OTHER -> p

LoadingLine == "Loading checkpoint from " \o PathStr(args.checkpoint[1]) \o "..."

SuccessLine == "Checkpoint loaded successfully."

ErrorLine(e) == "Error loading checkpoint: " \o e

HintLine == "Ensure you pointed to a directory containing 'best_model_state_dict.pt' or 'model_state_dict.pt'"

\* mutant: the success line is printed before the call instead of after it
HandleResume_SuccessPrintedFirst(o) ==
    CASE o.kind = "ok" ->
            /\ stdout' = Lines(<<LoadingLine, SuccessLine>>)
            /\ Continue("evaluate")
      [] o.kind = "Exception" ->
            /\ stdout' = Lines(<<LoadingLine, SuccessLine, ErrorLine(o.msg), HintLine>>)
            /\ pc' = "done"
            /\ exit_kind' = "sys_exit"
            /\ exit_status' = 1
            /\ UNCHANGED raised_at
      [] OTHER ->
            /\ stdout' = Lines(<<LoadingLine, SuccessLine>>)
            /\ Propagate("load_checkpoint")

\* mutant: the handler prints the error and the hint but does not exit
HandleResume_NoExit(o) ==
    CASE o.kind = "ok" ->
            /\ stdout' = Lines(<<LoadingLine, SuccessLine>>)
            /\ Continue("evaluate")
      [] o.kind = "Exception" ->
            /\ stdout' = Lines(<<LoadingLine, ErrorLine(o.msg), HintLine>>)
            /\ Continue("evaluate")
      [] OTHER ->
            /\ stdout' = Lines(<<LoadingLine>>)
            /\ Propagate("load_checkpoint")

\* lines 150-156: what the try statement does with the outcome o of
\* trainer.resume_state_from_dir
HandleResume(o) ==
    CASE o.kind = "ok" ->
            /\ stdout' = Lines(<<LoadingLine, SuccessLine>>)
            /\ Continue("evaluate")
      [] o.kind = "Exception" ->
            /\ stdout' = Lines(<<LoadingLine, ErrorLine(o.msg), HintLine>>)
            /\ pc' = "done"
            /\ exit_kind' = "sys_exit"
            /\ exit_status' = 1
            /\ UNCHANGED raised_at
      [] OTHER ->
            /\ stdout' = Lines(<<LoadingLine>>)
            /\ Propagate("load_checkpoint")

\* lines 147-156
LoadCheckpoint ==
    /\ pc = "load_checkpoint"
    /\ calls' = Append(calls, "load_checkpoint")
    /\ trainer_calls' = Append(trainer_calls, "resume_state_from_dir")
    /\ \E o \in ResumeOutcomes :
          /\ resume_result' = o
          /\ HandleResume(o)
    /\ UNCHANGED <<argsVars, config_file, config, ctx, dataVars>>
    /\ UNCHANGED <<optimizer, trainer, metrics>>

\* mutant: evaluate_all sits inside the try statement of the checkpoint load
Evaluate_InsideTry ==
    /\ pc = "evaluate"
    /\ calls' = Append(calls, "evaluate")
    /\ trainer_calls' = Append(trainer_calls, "evaluate_all")
    /\ \/ /\ metrics' = evaluate_all(test_loaders)
          /\ stdout' = Lines(<<"Starting evaluation...", "\n### Evaluation Results ###">>
                             \o [i \in 1..Len(metrics') |->
                                    metrics'[i].k \o ": " \o metrics'[i].v])
          /\ Continue("teardown")
       \/ /\ stdout' = Lines(<<"Starting evaluation...",
                               ErrorLine("evaluation failed"), HintLine>>)
          /\ pc' = "done"
          /\ exit_kind' = "sys_exit"
          /\ exit_status' = 1
          /\ UNCHANGED <<raised_at, metrics>>
    /\ UNCHANGED <<argsVars, config_file, config, ctx, dataVars>>
    /\ UNCHANGED <<optimizer, trainer, resume_result>>

\* lines 158-169
Evaluate ==
    /\ pc = "evaluate"
    /\ calls' = Append(calls, "evaluate")
    /\ trainer_calls' = Append(trainer_calls, "evaluate_all")
    /\ \/ /\ metrics' = evaluate_all(test_loaders)
          /\ stdout' = Lines(<<"Starting evaluation...", "\n### Evaluation Results ###">>
                             \o [i \in 1..Len(metrics') |->
                                    metrics'[i].k \o ": " \o metrics'[i].v])
          /\ Continue("teardown")
       \/ /\ stdout' = Lines(<<"Starting evaluation...">>)
          /\ Propagate("evaluate")
          /\ UNCHANGED metrics
    /\ UNCHANGED <<argsVars, config_file, config, ctx, dataVars>>
    /\ UNCHANGED <<optimizer, trainer, resume_result>>

\* lines 171-173, then main() returns
Teardown ==
    /\ pc = "teardown"
    /\ IF ctx.pg_initialized
       THEN /\ calls' = Append(calls, "teardown")
            /\ ctx' = [ctx EXCEPT !.pg_initialized = FALSE, !.pg_destroyed = TRUE]
       ELSE UNCHANGED <<calls, ctx>>
    /\ pc' = "done"
    /\ exit_kind' = "returned"
    /\ exit_status' = 0
    /\ UNCHANGED <<raised_at, argsVars, config_file, stdout, config, dataVars, trainVars>>

Next ==
    \/ ParseArgs
    \/ ReadConfig
    \/ MakeConfig
    \/ Setup
    \/ LoadData
    \/ GetModel
    \/ DataProcessorSetup
    \/ WrapLoaders
    \/ MakeTrainer
    \/ LoadCheckpoint
    \/ Evaluate
    \/ Teardown

Spec == Init /\ [][Next]_vars

(***************************************************************************)
(* Properties.                                                             *)
(***************************************************************************)
Range(s) == {s[i] : i \in 1..Len(s)}

IsPrefix(s, t) == Len(s) <= Len(t) /\ s = SubSeq(t, 1, Len(s))

LastLines(n) == SubSeq(stdout, Len(stdout) - n + 1, Len(stdout))

ResumeRaised == resume_result /= None /\ resume_result.kind = "Exception"

ErrorLines == {ErrorLine(m) : m \in ExcMessages}

\* C1: when resume_state_from_dir raises an Exception the run has printed
\* "Error loading checkpoint: <exception>" and then the hint as its last two
\* lines, has ended through sys.exit with status 1, and has never printed
\* "Checkpoint loaded successfully."
C1_CheckpointFailureExits ==
    ResumeRaised =>
        /\ pc = "done"
        /\ exit_kind = "sys_exit"
        /\ exit_status = 1
        /\ Len(stdout) >= 2
        /\ LastLines(2) = <<"Error loading checkpoint: " \o resume_result.msg, HintLine>>
        /\ SuccessLine \notin Range(stdout)

C1_Witness ==
    /\ ResumeRaised
    /\ exit_status = 1
    /\ HintLine \in Range(stdout)

SetupInitializedGroup == "setup" \in Range(calls) /\ (ctx.pg_initialized \/ ctx.pg_destroyed)

\* C2: every run that main() itself ends (by returning or by sys.exit) after
\* setup initialised a process group has called destroy_process_group, the
\* checkpoint-failure exit included.
C2_GroupTornDownOnEveryExit ==
    (pc = "done" /\ exit_kind \in {"returned", "sys_exit"} /\ SetupInitializedGroup)
        => ctx.pg_destroyed

StepOrder == <<"parse_config", "setup", "load_data", "get_model", "data_processor",
               "wrap_loaders", "make_trainer", "load_checkpoint", "evaluate",
               "teardown">>

\* C3: the steps of main() run in the fixed order parse configuration, setup,
\* dataset loading, model construction, data-processor setup, loader
\* wrapping, Trainer construction, checkpoint loading, evaluation, teardown,
\* each at most once; evaluate_all is called only after resume_state_from_dir
\* returned without raising.
C3_LinearOrder ==
    /\ IsPrefix(calls, StepOrder)
    /\ ("evaluate" \in Range(calls) \/ "evaluate_all" \in Range(trainer_calls))
          => (resume_result /= None /\ resume_result.kind = "ok")

C3_Witness ==
    /\ calls = StepOrder
    /\ exit_kind = "returned"

RECURSIVE JoinDots(_)
\* k1.k2.....kn
JoinDots(path) ==
    IF Len(path) = 1 THEN path[1] ELSE path[1] \o "." \o JoinDots(Tail(path))

RECURSIVE DottedArgs(_, _)
\* the pair "--k1.k2.....kn", str(v) of every leaf, in traversal order
DottedArgs(d, path) ==
    IF d = <<>> THEN <<>>
    ELSE LET here == Append(path, Head(d).k)
         IN (IF Head(d).v.tag = "table"
             THEN DottedArgs(Head(d).v.items, here)
             ELSE <<"--" \o JoinDots(here), Str(Head(d).v)>>)
            \o DottedArgs(Tail(d), path)

ConfigRead == pc = "make_config" /\ Truthy(args.config)

\* C5: when --config is given, sys.argv becomes argv[0], then for every leaf
\* of the TOML document, in traversal order, the pair "--k1.k2.....kn",
\* str(v) of its key path and value, then the unrecognised arguments.
C5_FlattenedDottedPaths ==
    ConfigRead => argv = <<Argv0>> \o DottedArgs(config_dict, <<>>) \o unknown

PrefixOfTrainerUse == <<"resume_state_from_dir", "evaluate_all">>

\* C6: the trainer is used for checkpoint loading and evaluation only: its
\* methods are invoked in the order resume_state_from_dir, evaluate_all, each
\* at most once, the dummy optimizer and scheduler are never stepped, and
\* the trainer is built with wandb_log=False.
C6_TrainerOnlyLoadsAndEvaluates ==
    /\ IsPrefix(trainer_calls, PrefixOfTrainerUse)
    /\ optimizer /= None =>
          (optimizer.optimizer_steps = 0 /\ optimizer.scheduler_steps = 0)
    /\ trainer /= None => ~trainer.wandb_log
    /\ trainer_calls /= <<>> => trainer /= None

C6_Witness ==
    /\ trainer_calls = PrefixOfTrainerUse
    /\ exit_kind = "returned"
    /\ ~trainer.wandb_log

Wrapped(loader, db, rank) ==
    /\ loader.built_by = "DataLoader"
    /\ loader.dataset = db
    /\ loader.sampler = [kind |-> "DistributedSampler", rank |-> rank]

WrapDone == "make_trainer" \in Range(calls)

C8_DataProcessorChoice ==
    trainer /= None =>
        LET dp == trainer.data_processor
            lib == loaded.data_processor
        IN /\ (dp.kind = "MGPatchingDataProcessor") <=> (config.patching.levels > 0)
           /\ dp.device = ctx.device
           /\ dp.in_normalizer = lib.in_normalizer
           /\ dp.out_normalizer = lib.out_normalizer
           /\ trainer.model = model
           /\ config.patching.levels > 0 => dp.model = trainer.model
           /\ config.patching.levels <= 0 => dp = [lib EXCEPT !.device = ctx.device]

C8_Witness ==
    /\ trainer /= None
    /\ config.patching.levels > 0
    /\ trainer.data_processor.kind = "MGPatchingDataProcessor"
    /\ "evaluate_all" \in Range(trainer_calls)

ConfigDump == "##### CONFIG #####\n"

\* C9: the setup step leaves config.verbose true exactly when the configured
\* flag was true and the process is the logger; the configuration dump is
\* printed exactly in that case, so never by a non-logger process; and the
\* Trainer receives the reduced flag.
C9_VerboseOnlyOnLogger ==
    /\ [][(pc = "setup" /\ pc' = "load_data") =>
             /\ config'.verbose = (config.verbose /\ ctx'.is_logger)
             /\ (ConfigDump \in Range(stdout')) <=> (config.verbose /\ ctx'.is_logger)]_vars
    /\ []((ConfigDump \in Range(stdout)) => (ctx.is_logger /\ config.verbose))
    /\ [](trainer /= None => trainer.verbose = config.verbose)

C9_Witness ==
    /\ trainer /= None
    /\ ~ctx.is_logger
    /\ ~trainer.verbose
    /\ ConfigDump \notin Range(stdout)

RECURSIVE DropScriptFlags(_)
\* a command line without the script's flags and the value each one takes
DropScriptFlags(s) ==
    IF s = <<>> THEN <<>>
    ELSE IF Head(s) \in ScriptFlags THEN DropScriptFlags(Tail(Tail(s)))
         ELSE <<Head(s)>> \o DropScriptFlags(Tail(s))

RECURSIVE NumLeaves(_)
NumLeaves(d) ==
    IF d = <<>> THEN 0
    ELSE (IF Head(d).v.tag = "table" THEN NumLeaves(Head(d).v.items) ELSE 1)
         + NumLeaves(Tail(d))

\* the values the command line gave to --config and --checkpoint
GivenValues == {args.config[1]} \cup
               (IF args.checkpoint /= DefaultArgs.checkpoint
                THEN {args.checkpoint[1]} ELSE {})

\* C10 as stated: with --config given, the sys.argv handed to
\* make_config_from_cli holds neither "--config" nor "--checkpoint" nor
\* their values; without it, a "--checkpoint <dir>" of the command line is
\* still in sys.argv.
C10_NoScriptFlagInArgv ==
    pc = "make_config" =>
        IF Truthy(args.config)
        THEN \A i \in 2..Len(argv) : argv[i] \notin ScriptFlags \cup GivenValues
        ELSE args.checkpoint /= DefaultArgs.checkpoint => "--checkpoint" \in Range(argv)

\* C10 amended: the step that rewrites sys.argv keeps argv[0], puts two
\* arguments per TOML leaf next and ends with the command line stripped of
\* the script's flags and the values they took, so no flag of the script
\* is carried over from the command line; every other step, and so every run
\* without a (non-empty) --config, leaves sys.argv as it was.
C10_ArgvRewrittenFromFileAndUnknown ==
    [][IF pc = "read_config" /\ pc' = "make_config"
       THEN LET n == 2 * NumLeaves(config_dict')
                rest == DropScriptFlags(Tail(argv))
            IN /\ Truthy(args.config)
               /\ argv'[1] = argv[1]
               /\ Len(argv') = 1 + n + Len(rest)
               /\ SubSeq(argv', n + 2, Len(argv')) = rest
               /\ \A i \in (n + 2)..Len(argv') : argv'[i] \notin ScriptFlags
       ELSE argv' = argv]_vars

C10_Witness ==
    /\ ConfigRead
    /\ "--config" \in Range(argv)
    /\ unknown /= <<>>
    /\ Len(argv) > 3 + Len(unknown)

====
